---- MODULE Spec2Model ----
(***************************************************************************)
(* Playback / navigation control flow of tiliter-video.                    *)
(*                                                                         *)
(*   run.py : immediate-mode player (cv2.imshow + blocking cv2.waitKey)    *)
(*   gui.py : tkinter player (timer callback + Pause / Step Back buttons)  *)
(*                                                                         *)
(* One behaviour of Spec is one run of one of the two programs; the        *)
(* program, its command line and the environment (is the source openable,  *)
(* is the sink openable, how many frames the source holds, what the video  *)
(* library does with a request it leaves undocumented) are fixed in Init.  *)
(* One behaviour of EquivSpec is a run of both programs side by side on    *)
(* the same command line, environment and sequence of user events.         *)
(***************************************************************************)
EXTENDS Integers, Sequences, FiniteSets, TLC

VARIABLES variant,   \* "run" (run.py) or "gui" (gui.py)
          args,      \* the parsed command line
          env,       \* the files and the video library build
          st,        \* the program's state: decoder, encoder, window, widgets
          lastKey,   \* run.py: input_key of the latest get_input(), -2 before
          nav,       \* history of the current pause: p, k step-backs, j plays
          inputs,    \* number of pause / resume inputs received so far
          played,    \* indices of the frames fetched by Playing ticks
          gst        \* state of gui.py when both programs run side by side

conf == <<variant, args, env, gst>>
vars == <<variant, args, env, st, lastKey, nav, inputs, played, gst>>

----------------------------------------------------------------------------
(* Bounds of the model *)

MaxFrames == 3     \* the source holds 1..MaxFrames frames
MaxShown == 7      \* frames displayed in one run
MaxInputs == 4     \* Pause / Play button activations in one run of gui.py

(* Program constants *)

Channels == 3      \* np.stack((image,) * 3, axis=-1)
NumFramesDefault == 1   \* set_frame_back(..., num_frames: int = 1)
WaitKeyNone == -1  \* cv2.waitKey returns -1 when no key was pressed
OrdQ == 113        \* ord("q")
OrdP == 112        \* ord("p")
OrdB == 98         \* ord("b")
OrdX == 120        \* ord("x"), some key without a binding

SrcRes == <<2, 1>>            \* (width, height) of the source video
RawKeys == {WaitKeyNone, OrdQ, OrdP, OrdB, OrdX}

NoFrame == [idx |-> -1, shape |-> <<>>, fmt |-> "None", mask |-> <<>>]  \* None

Last(s) == s[Len(s)]

----------------------------------------------------------------------------
(* The video library, as far as the programs use it *)

\* the frame the decoder returns at position i: height x width x 3, BGR;
\* mask is the history of the background subtractor that masked the frame
SourceFrame(i) ==
    [idx |-> i, shape |-> <<SrcRes[2], SrcRes[1], Channels>>, fmt |-> "BGR",
     mask |-> <<>>]

\* cap.read(): the frame at the read position, which then advances by one;
\* ret is False at the end of the stream
CapRead(s) ==
    IF s.capOpened /\ s.pos < env.numFrames
    THEN [ret |-> TRUE, frame |-> SourceFrame(s.pos),
          st |-> [s EXCEPT !.pos = @ + 1]]
    ELSE [ret |-> FALSE, frame |-> NoFrame, st |-> s]

\* cap.set(cv2.CAP_PROP_POS_FRAMES, v).  A negative v is not defined by the
\* library: a build either clamps it to the stream start or refuses the seek.
CapSet(s, v) ==
    LET newpos == IF v < 0
                  THEN (IF env.seekPolicy = "clamp" THEN 0 ELSE s.pos)
                  ELSE (IF v > env.numFrames THEN env.numFrames ELSE v)
    IN  [s EXCEPT !.pos = newpos, !.seekReqs = Append(@, v)]

\* cv2.cvtColor(frame, cv2.COLOR_BGR2GRAY): a 2-D, single channel image
cvtColorGray(f) == [f EXCEPT !.shape = <<f.shape[1], f.shape[2]>>, !.fmt = "GRAY"]

\* np.stack((image,) * 3, axis=-1): a new last axis of length 3
npStack3(f) == [f EXCEPT !.shape = Append(f.shape, Channels)]

\* cv2.cvtColor(image, cv2.COLOR_BGR2RGB): swaps the first and third channel
rgb_fn(f) ==
    [f EXCEPT !.fmt = IF @ = "BGR" THEN "RGB" ELSE IF @ = "RGB" THEN "BGR" ELSE @]

\* number of channels of a frame
ChannelsOf(f) == IF Len(f.shape) = 2 THEN 1 ELSE f.shape[3]

\* does a frame have the shape the writer was opened for (colour, res)
FitsSink(f, res) == f.shape = <<res[2], res[1], Channels>>

\* out.write(frame): never raises.  A closed writer and an empty frame write
\* nothing; a frame of another shape is undefined in the library: a build
\* either drops it silently or encodes it.
VideoWriterWrite(s, f) ==
    LET taken == /\ s.outOpened
                 /\ f # NoFrame
                 /\ (FitsSink(f, s.outRes) \/ env.sinkPolicy = "accept")
    IN  [s EXCEPT !.writeCalls = Append(@, f),
                  !.sink = IF taken THEN Append(@, f) ELSE @]

----------------------------------------------------------------------------
(* Program state *)

InitState ==
    [pc |-> "start",          \* start, fetch, poll, paused, mainloop, stopped, exited
     exitStatus |-> -1,       \* -1 while running
     stopCause |-> "none",
     capOpened |-> FALSE, pos |-> 0, capReleased |-> FALSE,
     outOpened |-> FALSE, outRes |-> <<0, 0>>, outReleased |-> FALSE,
     sink |-> <<>>,           \* frames the encoder took
     writeCalls |-> <<>>,     \* arguments of every out.write call
     shown |-> <<>>,          \* frames handed to imshow / the canvas
     win |-> "none",          \* none, open, destroyed
     subtractor |-> <<>>,     \* indices of the frames fed to subtractor.apply
     seekReqs |-> <<>>,       \* positions requested with cap.set
     paused |-> FALSE, pauseText |-> "none", stepState |-> "none",
     play |-> 0,              \* self.play: 0 for None, or a timer id
     pending |-> {},          \* ids of the timers Tk holds for self.update
     nextId |-> 1,            \* the id the next window.after call returns
     callbackError |-> FALSE] \* an exception was raised inside a Tk callback

\* sys.exit(status) and every other way the program stops running
Stop(s, status, cause) ==
    [s EXCEPT !.pc = "stopped", !.exitStatus = status, !.stopCause = cause]

----------------------------------------------------------------------------
(* run.py *)

\* get_input: cv2.waitKey(100) & 0xFF
get_input(raw) == raw % 256

\* check_quit comparing against the upper-case letter
check_quit_upper(input_key) == input_key = OrdQ - 32

\* check_quit: does the key make the program sys.exit(0)
check_quit(input_key) == input_key = OrdQ

\* subtractor.apply(frame) followed by cv2.bitwise_and(frame, frame, mask):
\* the subtractor learns the frame, the mask depends on all it has learnt
ApplySubtractor(s, f) ==
    LET hist == Append(s.subtractor, f.idx)
    IN  [frame |-> [f EXCEPT !.mask = hist],
         st |-> [s EXCEPT !.subtractor = hist]]

\* show_frame(args, cap, subtractor): the frame returned and the new state
show_frame(s) ==
    LET r == CapRead(s) IN
    IF ~r.ret
    THEN [frame |-> NoFrame, st |-> Stop(r.st, 0, "eos")]
    ELSE LET f1 == IF args.monochrome THEN cvtColorGray(r.frame) ELSE r.frame
             sg == IF args.segment THEN ApplySubtractor(r.st, f1)
                                   ELSE [frame |-> f1, st |-> r.st]
         IN  [frame |-> sg.frame,
              st |-> [sg.st EXCEPT !.shown = Append(@, sg.frame), !.win = "open"]]

\* set_frame_back with the step subtracted twice
set_frame_back_twice(s, num_frames) ==
    LET current_frame == s.pos - 1 - num_frames
    IN  CapSet(s, current_frame - num_frames)

\* set_frame_back(cap, num_frames)
set_frame_back(s, num_frames) ==
    LET current_frame == s.pos - 1
    IN  CapSet(s, current_frame - num_frames)

\* main, up to the loop: parse_args, VideoCapture, VideoWriter.
\* type=Tuple[int, int] cannot be called, so argparse reports any value given
\* for --output-resolution as a usage error and exits with status 2.
main_setup(s) ==
    IF args.output_resolution # "None"
    THEN Stop(s, 2, "usage")
    ELSE [s EXCEPT !.pc = "fetch",
                   !.capOpened = env.srcOk,
                   !.outRes = IF env.srcOk THEN SrcRes ELSE <<0, 0>>,
                   !.outOpened = env.sinkOk]

\* main, after the loop: cap.release(); out.release(); destroyAllWindows()
main_release(s) ==
    Stop([s EXCEPT !.capReleased = TRUE, !.outReleased = TRUE,
                   !.win = "destroyed"], 0, "loopend")

\* main, one pass of `while cap.isOpened()` up to the key poll
main_fetch(s) ==
    IF ~s.capOpened
    THEN main_release(s)
    ELSE LET r == show_frame(s) IN
         IF r.st.pc = "stopped"
         THEN r.st
         ELSE [VideoWriterWrite(r.st, r.frame) EXCEPT !.pc = "poll"]

\* main_poll in which 'b' is honoured while playing as it is while paused
main_poll_back(s, input_key) ==
    IF check_quit(input_key) THEN Stop(s, 0, "quit_playing")
    ELSE IF input_key = OrdP THEN [s EXCEPT !.pc = "paused"]
    ELSE IF input_key = OrdB
         THEN [set_frame_back(s, NumFramesDefault) EXCEPT !.pc = "fetch"]
    ELSE [s EXCEPT !.pc = "fetch"]

\* main, the key poll of the outer loop
main_poll(s, input_key) ==
    IF check_quit(input_key) THEN Stop(s, 0, "quit_playing")
    ELSE IF input_key = OrdP THEN [s EXCEPT !.pc = "paused"]
    ELSE [s EXCEPT !.pc = "fetch"]

\* main_paused with the re-displayed frame also written to the sink
main_paused_writes(s, input_key) ==
    IF check_quit(input_key) THEN Stop(s, 0, "quit_paused")
    ELSE LET r == show_frame(set_frame_back(s, NumFramesDefault))
             s1 == IF input_key = OrdB
                   THEN (IF r.st.pc = "stopped" THEN r.st
                         ELSE VideoWriterWrite(r.st, r.frame))
                   ELSE s
         IN  IF s1.pc = "stopped" THEN s1
             ELSE IF input_key = OrdP THEN [s1 EXCEPT !.pc = "fetch"]
             ELSE s1

\* main, one pass of the inner `while True` loop
main_paused(s, input_key) ==
    IF check_quit(input_key) THEN Stop(s, 0, "quit_paused")
    ELSE LET s1 == IF input_key = OrdB
                   THEN show_frame(set_frame_back(s, NumFramesDefault)).st
                   ELSE s
         IN  IF s1.pc = "stopped" THEN s1
             ELSE IF input_key = OrdP THEN [s1 EXCEPT !.pc = "fetch"]
             ELSE s1

----------------------------------------------------------------------------
(* History of the current pause: the frame p displayed when it began, the  *)
(* number k of step-backs since, the number j of frames played since the   *)
(* resume, the number n of frames displayed before the pause.  p = -1      *)
(* before the first pause.                                                 *)

NavInit == [p |-> -1, k |-> 0, j |-> 0, n |-> 0]
NavPause(s) == [p |-> Last(s.shown).idx, k |-> 0, j |-> 0, n |-> Len(s.shown)]
NavBack(n) == [n EXCEPT !.k = @ + 1]
NavPlay(n) == IF n.p >= 0 THEN [n EXCEPT !.j = @ + 1] ELSE n

Displayed(s, t) == Len(t.shown) = Len(s.shown) + 1

\* the frames fetched by Playing ticks, after a tick from state s to state t
PlayedAfter(s, t, pl) ==
    IF Displayed(s, t) THEN Append(pl, Last(t.shown).idx) ELSE pl

----------------------------------------------------------------------------
(* Actions of run.py *)

RunStart ==
    /\ variant = "run" /\ st.pc = "start"
    /\ st' = main_setup(st)
    /\ UNCHANGED <<conf, lastKey, nav, inputs, played>>

RunFetch ==
    /\ variant = "run" /\ st.pc = "fetch"
    /\ Len(st.shown) < MaxShown
    /\ st' = main_fetch(st)
    /\ nav' = IF Displayed(st, st') THEN NavPlay(nav) ELSE nav
    /\ played' = PlayedAfter(st, st', played)
    /\ UNCHANGED <<conf, lastKey, inputs>>

RunPoll ==
    /\ variant = "run" /\ st.pc = "poll"
    /\ \E raw \in RawKeys :
         /\ lastKey' = get_input(raw)
         /\ st' = main_poll(st, lastKey')
    /\ nav' = IF st'.pc = "paused" THEN NavPause(st) ELSE nav
    /\ inputs' = IF lastKey' = OrdP THEN inputs + 1 ELSE inputs
    /\ UNCHANGED <<conf, played>>

RunPausedPoll ==
    /\ variant = "run" /\ st.pc = "paused"
    /\ \E raw \in RawKeys :
         /\ get_input(raw) = OrdB => Len(st.shown) < MaxShown
         /\ lastKey' = get_input(raw)
         /\ st' = main_paused(st, lastKey')
    /\ nav' = IF Len(st'.seekReqs) > Len(st.seekReqs) THEN NavBack(nav) ELSE nav
    /\ inputs' = IF lastKey' = OrdP THEN inputs + 1 ELSE inputs
    /\ UNCHANGED <<conf, played>>

----------------------------------------------------------------------------
(* gui.py *)

\* monochrome_fn: grayscale, then stacked back to three channels
monochrome_fn(f) == npStack3(cvtColorGray(f))

\* SegmentationFunctor.__call__
SegmentationFunctor(s, f) == ApplySubtractor(s, f)

\* VideoProcessor.get_frame: (ret, frame) and the new state; the processors
\* are [monochrome_fn] if --monochrome, then [SegmentationFunctor] if --segment
get_frame(s) ==
    LET r == CapRead(s) IN
    IF s.capOpened /\ r.ret
    THEN LET f1 == IF args.monochrome THEN monochrome_fn(r.frame) ELSE r.frame
             sg == IF args.segment THEN SegmentationFunctor(r.st, f1)
                                   ELSE [frame |-> f1, st |-> r.st]
         IN  [ret |-> TRUE, frame |-> sg.frame, st |-> sg.st]
    ELSE [ret |-> FALSE, frame |-> NoFrame, st |-> r.st]

\* VideoProcessor.set_frame_back
VideoProcessor_set_frame_back(s, num_frames) ==
    LET current_frame == s.pos - 1
    IN  CapSet(s, current_frame - num_frames)

\* App.show_frame: draws rgb_fn(frame) and returns frame, or destroys the
\* window (which ends mainloop) and returns None
App_show_frame(s) ==
    LET r == get_frame(s) IN
    IF r.ret
    THEN [frame |-> r.frame,
          st |-> [r.st EXCEPT !.shown = Append(@, rgb_fn(r.frame))]]
    ELSE [frame |-> NoFrame,
          st |-> Stop([r.st EXCEPT !.win = "destroyed"], 0, "eos")]

\* self.play = self.window.after(self.delay, self.update): on a destroyed
\* window `after` raises TclError and self.play keeps its value
window_after(s) ==
    IF s.win = "destroyed"
    THEN [s EXCEPT !.callbackError = TRUE]
    ELSE [s EXCEPT !.play = s.nextId,
                   !.pending = @ \cup {s.nextId},
                   !.nextId = @ + 1]

\* after_cancel that returns None without cancelling the timer
window_after_cancel_noop(s) ==
    IF s.play = 0
    THEN [s EXCEPT !.callbackError = TRUE]
    ELSE [s EXCEPT !.play = 0]

\* self.play = self.window.after_cancel(self.play): after_cancel(None) raises
\* ValueError, otherwise the timer is cancelled and None returned
window_after_cancel(s) ==
    IF s.play = 0
    THEN [s EXCEPT !.callbackError = TRUE]
    ELSE [s EXCEPT !.pending = @ \ {s.play}, !.play = 0]

\* App.update
App_update(s) ==
    LET r == App_show_frame(s)
    IN  window_after(VideoWriterWrite(r.st, r.frame))

\* App.pause that leaves the Step Back button enabled on resume
App_pause_keeps_enabled(s) ==
    LET s1 == [s EXCEPT !.paused = ~@] IN
    IF s1.paused
    THEN window_after_cancel([s1 EXCEPT !.pauseText = "Play",
                                        !.stepState = "normal"])
    ELSE window_after([s1 EXCEPT !.pauseText = "Pause"])

\* App.pause
App_pause(s) ==
    LET s1 == [s EXCEPT !.paused = ~@] IN
    IF s1.paused
    THEN window_after_cancel([s1 EXCEPT !.pauseText = "Play",
                                        !.stepState = "normal"])
    ELSE window_after([s1 EXCEPT !.pauseText = "Pause",
                                 !.stepState = "disabled"])

\* App.step_back
App_step_back(s) ==
    IF s.paused
    THEN App_show_frame(VideoProcessor_set_frame_back(s, NumFramesDefault)).st
    ELSE s

\* VideoProcessor.__init__
VideoProcessor_init(s) ==
    IF ~env.srcOk
    THEN Stop(s, 1, "openerror")     \* raise ValueError
    ELSE [s EXCEPT !.capOpened = TRUE,
                   !.outRes = SrcRes,
                   !.outOpened = env.sinkOk]

\* App.__init__ up to mainloop: the widgets, then the first update
App_init(s) ==
    LET s1 == App_update([s EXCEPT !.win = "open",
                                   !.pauseText = "Pause",
                                   !.stepState = "disabled",
                                   !.paused = FALSE,
                                   !.play = 0])
    IN  IF s1.pc = "stopped" THEN s1 ELSE [s1 EXCEPT !.pc = "mainloop"]

\* main of gui.py: parse_args (see main_setup), VideoProcessor, App
gui_main(s) ==
    IF args.output_resolution # "None"
    THEN Stop(s, 2, "usage")
    ELSE LET s1 == VideoProcessor_init(s)
         IN  IF s1.pc = "stopped" THEN s1 ELSE App_init(s1)

\* VideoProcessor.__del__
VideoProcessor_del(s) ==
    [s EXCEPT !.capReleased = @ \/ s.capOpened, !.outReleased = TRUE]

----------------------------------------------------------------------------
(* Actions of gui.py: program start, then one action per Tk event *)

Paused(s) ==
    \/ variant = "run" /\ s.pc = "paused"
    \/ variant = "gui" /\ s.pc = "mainloop" /\ s.paused

GuiStart ==
    /\ variant = "gui" /\ st.pc = "start"
    /\ st' = gui_main(st)
    /\ played' = PlayedAfter(st, st', played)
    /\ UNCHANGED <<conf, lastKey, nav, inputs>>

\* the timer set with window.after fires
GuiUpdate ==
    /\ variant = "gui" /\ st.pc = "mainloop"
    /\ Len(st.shown) < MaxShown
    /\ \E id \in st.pending :
         st' = App_update([st EXCEPT !.pending = @ \ {id}])
    /\ nav' = IF Displayed(st, st') THEN NavPlay(nav) ELSE nav
    /\ played' = PlayedAfter(st, st', played)
    /\ UNCHANGED <<conf, lastKey, inputs>>

\* the Pause / Play button is activated
GuiPause ==
    /\ variant = "gui" /\ st.pc = "mainloop"
    /\ inputs < MaxInputs
    /\ st' = App_pause(st)
    /\ nav' = IF st'.paused THEN NavPause(st) ELSE nav
    /\ inputs' = inputs + 1
    /\ UNCHANGED <<conf, lastKey, played>>

\* the Step Back button is activated; a disabled button ignores the click
GuiStepBack ==
    /\ variant = "gui" /\ st.pc = "mainloop"
    /\ st.stepState = "normal"
    /\ Len(st.shown) < MaxShown
    /\ st' = App_step_back(st)
    /\ nav' = IF Len(st'.seekReqs) > Len(st.seekReqs) THEN NavBack(nav) ELSE nav
    /\ UNCHANGED <<conf, lastKey, inputs, played>>

----------------------------------------------------------------------------
(* Process exit.  Python does not promise that the destructors of objects   *)
(* alive at interpreter exit run: the handles run.py did not release, and   *)
(* VideoProcessor.__del__ of gui.py, may or may not be run by then.         *)

Finalize(s, dc, dw) ==
    IF variant = "run"
    THEN IF s.stopCause = "usage" THEN s
         ELSE [s EXCEPT !.capReleased = @ \/ dc, !.outReleased = @ \/ dw]
    ELSE IF s.stopCause \in {"usage", "openerror"} \/ ~dc THEN s
         ELSE VideoProcessor_del(s)

ProcessExit ==
    /\ st.pc = "stopped"
    /\ \E dc \in BOOLEAN, dw \in BOOLEAN :
         st' = [Finalize(st, dc, dw) EXCEPT !.pc = "exited"]
    /\ UNCHANGED <<conf, lastKey, nav, inputs, played>>

----------------------------------------------------------------------------

Init ==
    /\ variant \in {"run", "gui"}
    /\ args \in [monochrome : BOOLEAN, segment : BOOLEAN,
                 output_resolution : {"None", "given"}]
    /\ env \in [srcOk : BOOLEAN, sinkOk : BOOLEAN, numFrames : 1..MaxFrames,
                seekPolicy : {"clamp", "ignore"},
                sinkPolicy : {"drop", "accept"}]
    /\ st = InitState
    /\ lastKey = -2
    /\ nav = NavInit
    /\ inputs = 0
    /\ played = <<>>
    /\ gst = InitState

Next ==
    \/ RunStart
    \/ RunFetch
    \/ RunPoll
    \/ RunPausedPoll
    \/ GuiStart
    \/ GuiUpdate
    \/ GuiPause
    \/ GuiStepBack
    \/ ProcessExit

Spec == Init /\ [][Next]_vars

----------------------------------------------------------------------------
(* Properties *)

Range(s) == {s[i] : i \in DOMAIN s}
Ended(s) == s.pc \in {"stopped", "exited"}

\* C1: for a pause taken on frame p and k <= p step-backs, the i-th
\* step-back displays frame p-i, and the j frames played after the resume are
\* p-k+1, ..., p-k+j, one display per step and none skipped or repeated
\* (run.py and gui.py)
C1_StepBackReplay ==
    (nav.p >= 0 /\ nav.k <= nav.p) =>
        /\ Len(st.shown) = nav.n + nav.k + nav.j
        /\ st.shown[nav.n].idx = nav.p
        /\ \A i \in 1..nav.k : st.shown[nav.n + i].idx = nav.p - i
        /\ \A i \in 1..nav.j : st.shown[nav.n + nav.k + i].idx = nav.p - nav.k + i

\* C1 witness: run.py paused on frame 2, stepped back twice (frames 1, 0)
\* and played frames 1 and 2 again
C1_Witness ==
    /\ variant = "run"
    /\ nav.p = 2 /\ nav.k = 2 /\ nav.j = 2
    /\ Last(st.shown).idx = 2

\* C2: every step taken while the controller is Paused (step-back, idle
\* poll, resume, quit) leaves the sink's frame sequence as it was
C2_NoWriteWhilePaused == [][Paused(st) => st'.sink = st.sink]_vars

\* C2 witness: paused, two step-backs done, and the sink holds exactly the
\* frames written before the pause
C2_Witness ==
    /\ Paused(st)
    /\ nav.k = 2
    /\ Len(st.sink) = nav.n /\ nav.n >= 2

\* C3: 0 <= position <= stream length in every state, and every position a
\* step-back requests is clamped to >= 0
C3_PositionClamped ==
    /\ 0 <= st.pos /\ st.pos <= env.numFrames
    /\ \A i \in DOMAIN st.seekReqs : st.seekReqs[i] >= 0

\* C4: in the Playing tick whose fetch reports end of stream the controller
\* stops and does not transform, render or call the sink's write, and no
\* step after it does
C4_EndOfStreamStops ==
    [][((st.stopCause = "none" /\ ~Paused(st) /\ st'.stopCause = "eos")
            \/ st.stopCause = "eos") =>
          /\ Ended(st')
          /\ st'.shown = st.shown
          /\ st'.subtractor = st.subtractor
          /\ st'.writeCalls = st.writeCalls
          /\ st'.sink = st.sink]_vars

\* C5: when the process has exited after a quit input or the end of the
\* stream, the decoder handle, the encoder handle and the presentation
\* window have all been released
C5_ReleasedOnStop ==
    (st.pc = "exited" /\ st.stopCause \in {"quit_playing", "quit_paused", "eos"})
        => (st.capReleased /\ st.outReleased /\ st.win = "destroyed")

\* C6: when the source or the sink cannot be opened, no frame is fetched,
\* rendered or written, the exit status is never 0, and the process exits
\* with a non-zero status
C6_OpenFailureFatal ==
    (~env.srcOk \/ ~env.sinkOk) =>
        /\ st.shown = <<>> /\ st.writeCalls = <<>> /\ st.pos = 0
        /\ st.exitStatus # 0
        /\ (st.pc = "exited" => st.exitStatus > 0)

\* C7: in run.py a poll that returns 'q' stops the program with exit status
\* 0 in that very step, from Playing and from Paused alike, and neither that
\* step nor any later one fetches, renders, seeks or writes
C7_QuitAtPoll ==
    /\ [](lastKey = OrdQ =>
            (Ended(st) /\ st.exitStatus = 0
               /\ st.stopCause \in {"quit_playing", "quit_paused"}))
    /\ [][lastKey' = OrdQ =>
            /\ st'.pos = st.pos
            /\ st'.shown = st.shown
            /\ st'.seekReqs = st.seekReqs
            /\ st'.writeCalls = st.writeCalls
            /\ st'.sink = st.sink]_vars

\* C7 witness: 'q' polled in the pause loop after a step-back
C7_Witness ==
    /\ variant = "run"
    /\ lastKey = OrdQ
    /\ st.stopCause = "quit_paused"
    /\ nav.k >= 1

\* C8: every frame handed to the presentation surface or to the sink has
\* the height, width and channel count of the source frame, whatever the
\* monochrome and segment flags
C8_ShapePreserved ==
    \A f \in (Range(st.shown) \cup Range(st.writeCalls)) \ {NoFrame} :
        /\ f.shape = SourceFrame(f.idx).shape
        /\ ChannelsOf(f) = Channels

\* C9: a sink write of a frame whose shape differs from what the sink was
\* opened with raises an error and is never accepted into the sink
C9_MismatchRejected ==
    \A i \in DOMAIN st.writeCalls :
        (st.writeCalls[i] # NoFrame /\ ~FitsSink(st.writeCalls[i], st.outRes))
            => /\ Ended(st) /\ st.exitStatus > 0
               /\ Len(st.writeCalls) = i
               /\ st.writeCalls[i] \notin Range(st.sink)

\* C10: in gui.py, once the widgets exist, the Step Back button is enabled
\* iff the application is paused and the toggle button reads "Play" iff it is
\* paused, "Pause" otherwise
C10_ButtonsFollowPaused ==
    (variant = "gui" /\ st.win # "none") =>
        /\ (st.stepState = "normal") <=> st.paused
        /\ (st.stepState = "disabled") <=> ~st.paused
        /\ (st.pauseText = "Play") <=> st.paused
        /\ (st.pauseText = "Pause") <=> ~st.paused

\* C10 witness: gui.py playing again (button back to "Pause", Step Back
\* disabled) after a pause with a step-back and a resume
C10_Witness ==
    /\ variant = "gui"
    /\ st.pc = "mainloop"
    /\ ~st.paused /\ st.stepState = "disabled" /\ st.pauseText = "Pause"
    /\ nav.k >= 1 /\ nav.j >= 1

\* the program is in its playback loop
Running(s) == s.pc \in {"fetch", "poll", "paused", "mainloop"}

\* C11: the controller starts in Playing and is Paused exactly after an odd
\* number of pause / resume inputs ('p' keys, Pause/Play activations); a step
\* that changes Playing/Paused is a step that received such an input; any
\* other key polled while Playing ('b' included) leaves the controller
\* Playing and the source position alone, and a key other than 'p', 'b', 'q'
\* polled while Paused leaves it Paused at the same position
C11_ToggleOnlyOnInput ==
    /\ [](Running(st) => (Paused(st) <=> inputs % 2 = 1))
    /\ [][(Running(st) /\ Running(st') /\ Paused(st') # Paused(st))
              => inputs' = inputs + 1]_vars
    /\ [][(variant = "run" /\ st.pc = "poll" /\ lastKey' \notin {OrdP, OrdQ})
              => (st'.pc = "fetch" /\ st'.pos = st.pos
                    /\ st'.seekReqs = st.seekReqs)]_vars
    /\ [][(variant = "run" /\ st.pc = "paused"
             /\ lastKey' \notin {OrdP, OrdQ, OrdB})
              => (st'.pc = "paused" /\ st'.pos = st.pos
                    /\ st'.seekReqs = st.seekReqs)]_vars

\* C11 witness: run.py playing again after a pause and a resume, 'b' then
\* polled while Playing
C11_Witness ==
    /\ variant = "run"
    /\ st.pc = "fetch"
    /\ inputs = 2
    /\ lastKey = OrdB
    /\ nav.j >= 1

\* the source indices of a sequence of frames
Indices(fs) == [i \in DOMAIN fs |-> fs[i].idx]

\* C12: a step-back received in Paused (a seek followed by the re-display
\* fetch) leaves the controller Paused, also for a pause on frame 0
C12_StepBackStaysPaused ==
    [][(Paused(st) /\ Len(st'.seekReqs) = Len(st.seekReqs) + 1)
          => Paused(st')]_vars

\* C13: before the end of the stream the frames in the sink are, in order
\* and once per fetch, the frames fetched by Playing ticks
C13_SinkIsPlayed ==
    (st.pc # "start" /\ st.stopCause \notin {"eos", "usage", "openerror"})
        => Indices(st.sink) = played

\* C14: in gui.py's mainloop exactly one update callback is pending, the one
\* self.play names, while playing and none while paused; no exception has
\* been raised in a callback (after_cancel never got None); and a step taken
\* while paused makes no out.write call and fetches only for a step-back
C14_OneTimerWhilePlaying ==
    /\ []((variant = "gui" /\ st.pc = "mainloop") =>
            /\ st.paused => (st.pending = {} /\ st.play = 0)
            /\ ~st.paused => (st.pending = {st.play} /\ st.play # 0)
            /\ ~st.callbackError)
    /\ [][(variant = "gui" /\ Paused(st)) =>
            /\ st'.writeCalls = st.writeCalls
            /\ st'.shown # st.shown => Len(st'.seekReqs) > Len(st.seekReqs)]_vars

\* C14 witness: gui.py playing with one timer pending after two pauses, a
\* step-back and two resumes
C14_Witness ==
    /\ variant = "gui" /\ st.pc = "mainloop"
    /\ ~st.paused /\ Cardinality(st.pending) = 1
    /\ inputs = 4 /\ nav.k >= 1 /\ Len(played) >= 3

\* C15: a run that reached the end of the stream without any pause or quit
\* input has rendered, and written to the sink, exactly frames 0..N-1 once
\* each and in order
C15_PlaysThrough ==
    (st.stopCause = "eos" /\ inputs = 0) =>
        /\ Indices(st.shown) = [i \in 1..env.numFrames |-> i - 1]
        /\ Indices(st.sink) = [i \in 1..env.numFrames |-> i - 1]

\* The scheduling of the two programs: run.py's loop keeps running (waitKey
\* returns after 100 ms whatever the user does) and Tk fires a pending timer.
LiveSpec ==
    /\ Spec
    /\ WF_vars(RunStart) /\ WF_vars(RunFetch) /\ WF_vars(RunPoll)
    /\ WF_vars(GuiStart) /\ WF_vars(GuiUpdate)

\* Termination: a run that is Paused only finitely long and never polls 'q'
\* stops (or reaches the bound of the model on displayed frames)
EventuallyStops ==
    <>[](~Paused(st)) => <>(Ended(st) \/ Len(st.shown) = MaxShown)

----------------------------------------------------------------------------
(* run.py (state st) and gui.py (state gst) side by side, driven by the    *)
(* same events.  gui.py displays its first frame during start-up, run.py   *)
(* in the first pass of its loop; a tick of run.py is the poll that        *)
(* returns no key (if one is due) followed by the next pass of the loop.   *)

InitEq ==
    /\ variant = "both"
    /\ args \in [monochrome : BOOLEAN, segment : BOOLEAN,
                 output_resolution : {"None", "given"}]
    /\ env \in [srcOk : BOOLEAN, sinkOk : BOOLEAN, numFrames : 1..MaxFrames,
                seekPolicy : {"clamp", "ignore"},
                sinkPolicy : {"drop", "accept"}]
    /\ st = InitState /\ gst = InitState
    /\ lastKey = -2 /\ nav = NavInit /\ inputs = 0 /\ played = <<>>

ghost == <<lastKey, nav, inputs, played>>

\* one tick of run.py
run_tick(s) ==
    IF s.pc = "poll"
    THEN main_fetch(main_poll(s, get_input(WaitKeyNone)))
    ELSE main_fetch(s)

EqStart ==
    /\ st.pc = "start" /\ gst.pc = "start"
    /\ st' = (LET s1 == main_setup(st)
              IN  IF s1.pc = "stopped" THEN s1 ELSE main_fetch(s1))
    /\ gst' = gui_main(gst)
    /\ UNCHANGED <<variant, args, env, ghost>>

EqTick ==
    /\ st.pc \in {"poll", "fetch"}
    /\ gst.pc = "mainloop" /\ ~gst.paused
    /\ Len(st.shown) < MaxShown /\ Len(gst.shown) < MaxShown
    /\ st' = run_tick(st)
    /\ \E id \in gst.pending :
         gst' = App_update([gst EXCEPT !.pending = @ \ {id}])
    /\ UNCHANGED <<variant, args, env, ghost>>

EqPause ==
    /\ st.pc = "poll"
    /\ gst.pc = "mainloop" /\ ~gst.paused
    /\ st' = main_poll(st, OrdP)
    /\ gst' = App_pause(gst)
    /\ UNCHANGED <<variant, args, env, ghost>>

EqStepBack ==
    /\ st.pc = "paused"
    /\ gst.pc = "mainloop" /\ gst.paused /\ gst.stepState = "normal"
    /\ Len(st.shown) < MaxShown /\ Len(gst.shown) < MaxShown
    /\ st' = main_paused(st, OrdB)
    /\ gst' = App_step_back(gst)
    /\ UNCHANGED <<variant, args, env, ghost>>

EqResume ==
    /\ st.pc = "paused"
    /\ gst.pc = "mainloop" /\ gst.paused
    /\ st' = main_paused(st, OrdP)
    /\ gst' = App_pause(gst)
    /\ UNCHANGED <<variant, args, env, ghost>>

NextEq ==
    \/ EqStart
    \/ EqTick
    \/ EqPause
    \/ EqStepBack
    \/ EqResume

EquivSpec == InitEq /\ [][NextEq]_vars

\* C16: the two set_frame_back functions request the same position for every
\* read position and step, and while neither program has reached the end of
\* the stream both have displayed the same source indices, made the same
\* seek requests and appended the same indices to the sink
C16_SameNavigation ==
    /\ \A p \in 0..MaxFrames, nf \in 0..MaxFrames :
         Last(set_frame_back([st EXCEPT !.pos = p], nf).seekReqs)
           = Last(VideoProcessor_set_frame_back([st EXCEPT !.pos = p], nf).seekReqs)
    /\ (Running(st) /\ Running(gst)) =>
         /\ Indices(st.shown) = Indices(gst.shown)
         /\ st.seekReqs = gst.seekReqs
         /\ st.pos = gst.pos
         /\ Indices(st.sink) = Indices(gst.sink)

\* C17: the frame rendered for a source index depends only on that index
\* and the flags: whenever one index is displayed twice in a run (directly
\* and again after step-backs) the two rendered frames are equal, and a step
\* taken while Paused leaves the state of the transforms as it was
C17_PureTransforms ==
    /\ [](\A a \in DOMAIN st.shown, b \in DOMAIN st.shown :
            st.shown[a].idx = st.shown[b].idx => st.shown[a] = st.shown[b])
    /\ [][Paused(st) => st'.subtractor = st.subtractor]_vars

====
